---- MODULE Spec2Model ----
(***************************************************************************)
(* A state-machine model of MidwayWSFramework                              *)
(* (packages/ws/src/framework.ts): the upgrade gate, the per-connection     *)
(* setup done by the 'connection' listener of addNamespace, the message     *)
(* and close dispatch, bindSocketResponse and the heartbeat monitor.        *)
(*                                                                         *)
(* Every `await` of the source is a point where the event loop may run      *)
(* something else, so each handler is cut into one action per synchronous   *)
(* stretch: the action that ends at an await leaves the connection's pc at  *)
(* that await, and the action that resumes it is named ...Settle.           *)
(***************************************************************************)
EXTENDS Integers, Sequences, FiniteSets, Bags, TLC

(***************************************************************************)
(* Bounds of the model.                                                     *)
(***************************************************************************)
MaxConn == 2
MaxEvents == 2
MaxTicks == 3

\* Upgrade attempts; a completed upgrade of attempt a yields the WebSocket a.
Conn == 1..MaxConn

(***************************************************************************)
(* JavaScript values that flow through the pipelines.  A value is a record  *)
(* [type, val]; Raise stands for a rejected promise / thrown error.         *)
(***************************************************************************)
Undef == [type |-> "undefined", val |-> ""]
Str(s) == [type |-> "string", val |-> s]
Obj == [type |-> "object", val |-> "ok:true"]
Bool(b) == [type |-> "boolean", val |-> IF b THEN "true" ELSE "false"]
One == [type |-> "number", val |-> "1"]
Raise == [type |-> "raise", val |-> "error"]

\* JavaScript truthiness, as used by `!authResult` and `!result`.
Truthy(v) ==
  CASE v.type = "undefined" -> FALSE
    [] v.type = "boolean" -> v.val = "true"
    [] v.type = "number" -> v.val # "0"
    [] v.type = "string" -> v.val # ""
    [] OTHER -> TRUE

\* JSON.stringify of the one object value of the model.
JSONstringify(v) == Str("{\"ok\":true}")

formatResult(result) ==
  IF result.type = "object" THEN JSONstringify(result) ELSE result

(***************************************************************************)
(* Upgrade predicates an application may install; AuthResult is what the    *)
(* awaited call settles to.                                                 *)
(***************************************************************************)
NoHandler == "null"
AuthHandlers == {"allow", "allowOne", "deny", "denyUndef", "throws"}

AuthResult(h) ==
  CASE h = "allow" -> Bool(TRUE)
    [] h = "allowOne" -> One
    [] h = "deny" -> Bool(FALSE)
    [] h = "denyUndef" -> Undef
    [] OTHER -> Raise

(***************************************************************************)
(* Event descriptors (WSEventInfo) and the descriptor lists of the model.   *)
(***************************************************************************)
ON_CONNECTION == "ws:onConnection"
ON_MESSAGE == "ws:onMessage"
ON_DISCONNECTION == "ws:onDisconnection"
EMIT == "ws:Emit"
BROADCAST == "ws:broadcast"

WSEventInfo(t, p, m) ==
  [eventType |-> t, propertyName |-> p, messageEventName |-> "message",
   middleware |-> m]

(***************************************************************************)
(* A handler group as the metadata registry describes it: the descriptor    *)
(* list (WS_EVENT_KEY), the controller's middleware and its connection      *)
(* middleware (WS_CONTROLLER_KEY routerOptions).                            *)
(***************************************************************************)
Controller(e, m, cm) ==
  [wsEventInfos |-> e, middleware |-> m, connectionMiddleware |-> cm]

\* @OnWSMessage above @WSEmit/@WSBroadCast: the response descriptors are
\* attached first.
ResponseFirst ==
  Controller(<<WSEventInfo(EMIT, "gotMessage", <<>>),
               WSEventInfo(BROADCAST, "gotMessage", <<>>),
               WSEventInfo(ON_MESSAGE, "gotMessage", <<"B">>)>>,
             <<"A">>, <<>>)

\* The same method with the decorators in the other order.
ResponseLast ==
  Controller(<<WSEventInfo(ON_MESSAGE, "gotMessage", <<>>),
               WSEventInfo(EMIT, "gotMessage", <<>>),
               WSEventInfo(BROADCAST, "gotMessage", <<>>)>>,
             <<>>, <<>>)

\* No response descriptor at all: connect, message and disconnect handlers.
NoResponse ==
  Controller(<<WSEventInfo(ON_CONNECTION, "onConnect", <<"A", "B">>),
               WSEventInfo(ON_MESSAGE, "gotMessage", <<>>),
               WSEventInfo(ON_DISCONNECTION, "onClose", <<>>)>>,
             <<>>, <<"G">>)

\* An on-connect method whose response descriptors follow it.
ConnectResponseLast ==
  Controller(<<WSEventInfo(ON_CONNECTION, "onConnect", <<>>),
               WSEventInfo(EMIT, "onConnect", <<>>),
               WSEventInfo(BROADCAST, "onConnect", <<>>)>>,
             <<>>, <<>>)

\* A controller class without any event descriptor.
NoEvents == Controller(<<>>, <<>>, <<>>)

Controllers == {ResponseFirst, ResponseLast, ConnectResponseLast, NoResponse}

Methods == {"onConnect", "gotMessage", "onClose"}

VARIABLES
  \* configuration and registries, fixed once the framework is initialised
  enableServerHeartbeatCheck, \* configurationOptions.enableServerHeartbeatCheck
  controllerModules,          \* listModule(WS_CONTROLLER_KEY): <<>> or <<controller>>
  connectionMiddlewareManager,\* this.connectionMiddlewareManager
  \* framework fields
  upgradeAuthHandler,         \* this.upgradeAuthHandler
  heartBeatInterval,          \* this.heartBeatInterval: "unset" | "active"
  listening,                  \* server.listening
  closed,                     \* the WebSocket server has emitted 'close'
  clients,                    \* this.app.clients
  \* one upgrade attempt per raw socket
  rawSocket,                  \* "idle" | "auth" | "destroyed" | "upgraded"
  authCalled,                 \* the predicate the attempt awaits or awaited
  connectionEvents,           \* number of 'connection' events emitted for it
  requested,                  \* argument of the latest onWebSocketUpgrade call
  \* one WebSocket per completed upgrade
  readyState,                 \* "NONE" | "OPEN" | "CLOSING" | "CLOSED"
  isAlive,                    \* socket.isAlive: "undefined" | "true" | "false"
  pc,                         \* where the 'connection' listener stands
  connectFn,                  \* the chain composed at line 227 for the socket
  idx,                        \* index of the descriptor the loop is at
  methodMap,                  \* methodMap of the listener's closure
  listeners,                  \* descriptors whose socket.on(...) is registered
  \* pipelines in flight, and what the latest steps did (for the properties)
  inflight,                   \* bag of message / close listener invocations awaiting
  nEvents,                    \* inbound events delivered so far
  nTicks,                     \* interval callbacks run so far
  hb,                         \* per connection: what the monitor did to it
  onConnRuns,                 \* per connection and descriptor: pipelines run
  last,                       \* the pipeline that settled in the latest step
  lastEvent                   \* the message or close event just delivered

vars ==
  <<enableServerHeartbeatCheck, controllerModules, connectionMiddlewareManager,
    upgradeAuthHandler, heartBeatInterval, listening, closed, clients,
    rawSocket, authCalled, connectionEvents, requested,
    readyState, isAlive, pc, connectFn, idx, methodMap, listeners,
    inflight, nEvents, nTicks, hb, onConnRuns, last, lastEvent>>

configVars ==
  <<enableServerHeartbeatCheck, controllerModules, connectionMiddlewareManager>>
gateVars == <<rawSocket, authCalled, connectionEvents, requested>>
setupVars == <<pc, connectFn, idx, methodMap, listeners, onConnRuns>>
dispatchVars == <<inflight, nEvents>>
heartVars == <<nTicks, hb>>

(***************************************************************************)
(* The state after applicationInitialize, afterContainerReady and run().    *)
(***************************************************************************)
NoPipeline ==
  [kind |-> "none", conn |-> 0, d |-> 0, ack |-> FALSE, trace |-> <<>>,
   short |-> "", out |-> Undef, acks |-> 0, bound |-> FALSE, sends |-> [c \in Conn |-> 0],
   payload |-> Undef, open |-> {}, table |-> <<>>]

NoEvent ==
  [conn |-> 0, name |-> "", declared |-> FALSE, invoked |-> 0,
   afterFailure |-> FALSE]

NoBeat ==
  [ticks |-> 0, pings |-> 0, pingedAt |-> 0, pingOut |-> FALSE,
   ponged |-> FALSE, terminatedAt |-> 0]

EmptyMethodMap ==
  [m \in Methods |-> [present |-> FALSE, responseEvents |-> <<>>]]

\* The descriptors of the first controller module, if there is one
\* (loadMidwayController: "ws just one namespace").
EventsOf(modules) ==
  IF modules = <<>> THEN <<>> ELSE modules[1].wsEventInfos

\* this.heartBeatInterval = setInterval(...)
startHeartBeat == "active"

\* run() finds the HTTP server listening or not (isListening): lines 90-98
\* start the heartbeat at once in the first case, when it is enabled.
InitRun(enable, modules, isListening) ==
  /\ enableServerHeartbeatCheck = enable
  /\ controllerModules = modules
  /\ connectionMiddlewareManager = <<>>
  /\ upgradeAuthHandler = NoHandler
  /\ heartBeatInterval = IF enable /\ isListening THEN startHeartBeat ELSE "unset"
  /\ listening = isListening
  /\ closed = FALSE
  /\ clients = {}
  /\ rawSocket = [a \in Conn |-> "idle"]
  /\ authCalled = [a \in Conn |-> NoHandler]
  /\ connectionEvents = [a \in Conn |-> 0]
  /\ requested = NoHandler
  /\ readyState = [c \in Conn |-> "NONE"]
  /\ isAlive = [c \in Conn |-> "undefined"]
  /\ pc = [c \in Conn |-> "none"]
  /\ connectFn = [c \in Conn |-> <<>>]
  /\ idx = [c \in Conn |-> 0]
  /\ methodMap = [c \in Conn |-> EmptyMethodMap]
  /\ listeners = [c \in Conn |-> {}]
  /\ inflight = EmptyBag
  /\ nEvents = 0
  /\ nTicks = 0
  /\ hb = [c \in Conn |-> NoBeat]
  /\ onConnRuns = [c \in Conn |-> [d \in 1..Len(EventsOf(modules)) |-> 0]]
  /\ last = NoPipeline
  /\ lastEvent = NoEvent

\* The same with the HTTP server not yet listening when run() is called.
InitWith(enable, modules) == InitRun(enable, modules, FALSE)

(***************************************************************************)
(* `last` and `lastEvent` describe the latest step only: a settling         *)
(* pipeline sets `last`, a delivered event sets `lastEvent` (noting whether *)
(* it follows at once a failed message pipeline of its connection); every   *)
(* other step clears them.                                                  *)
(***************************************************************************)
Forget == last' = NoPipeline /\ lastEvent' = NoEvent

(***************************************************************************)
(* run(): the HTTP server starts listening; the heartbeat is started then,  *)
(* when the configuration enables it.                                       *)
(***************************************************************************)
Listening ==
  /\ ~listening
  /\ listening' = TRUE
  /\ heartBeatInterval' =
       IF enableServerHeartbeatCheck THEN startHeartBeat ELSE heartBeatInterval
  /\ Forget
  /\ UNCHANGED <<configVars, upgradeAuthHandler, closed, clients, gateVars,
                 readyState, isAlive, setupVars, dispatchVars, heartVars>>

(***************************************************************************)
(* this.app.on('close', ...): the WebSocket server has closed (beforeStop   *)
(* calls app.close()); the listener cancels the interval the field holds,   *)
(* if it holds one.                                                         *)
(***************************************************************************)
clearInterval(interval) == IF interval = "active" THEN "cleared" ELSE interval

AppClose ==
  /\ ~closed
  /\ closed' = TRUE
  /\ heartBeatInterval' = clearInterval(heartBeatInterval)
  /\ Forget
  /\ UNCHANGED <<configVars, upgradeAuthHandler, listening, clients, gateVars,
                 readyState, isAlive, setupVars, dispatchVars, heartVars>>

(***************************************************************************)
(* onWebSocketUpgrade(handler): install a predicate, or remove it (null).   *)
(***************************************************************************)
\* Fault variant: a removal (null) leaves the installed predicate in place.
OnWebSocketUpgradeKeeps(handler) ==
  /\ upgradeAuthHandler' =
       IF handler = NoHandler THEN upgradeAuthHandler ELSE handler
  /\ requested' = handler
  /\ Forget
  /\ UNCHANGED <<configVars, heartBeatInterval, listening, closed, clients,
                 rawSocket, authCalled, connectionEvents, readyState, isAlive,
                 setupVars, dispatchVars, heartVars>>

OnWebSocketUpgrade(handler) ==
  /\ upgradeAuthHandler' = handler
  /\ requested' = handler
  /\ Forget
  /\ UNCHANGED <<configVars, heartBeatInterval, listening, closed, clients,
                 rawSocket, authCalled, connectionEvents, readyState, isAlive,
                 setupVars, dispatchVars, heartVars>>

(***************************************************************************)
(* useConnectionMiddleware(middleware): the application registers its       *)
(* process-wide connection middleware one call after the other.             *)
(***************************************************************************)
\* The middleware the application registers, in the order of its calls.
ProcessWide == <<"U", "V">>

\* ContextMiddlewareManager.insertLast
insertLast(manager, middleware) == Append(manager, middleware)

UseConnectionMiddleware ==
  /\ Len(connectionMiddlewareManager) < Len(ProcessWide)
  /\ connectionMiddlewareManager' =
       insertLast(connectionMiddlewareManager,
                  ProcessWide[Len(connectionMiddlewareManager) + 1])
  /\ Forget
  /\ UNCHANGED <<enableServerHeartbeatCheck, controllerModules,
                 upgradeAuthHandler, heartBeatInterval, listening, closed,
                 clients, gateVars, readyState, isAlive, setupVars,
                 dispatchVars, heartVars>>

(***************************************************************************)
(* server.on('upgrade', ...).                                              *)
(***************************************************************************)
\* Fault variant: only the boolean false is a rejection.
AuthRejectedStrict(authResult) ==
  authResult = Raise \/ authResult = Bool(FALSE)

\* `if (!authResult)` after the await, and the catch around it: the attempt
\* is rejected.
AuthRejected(authResult) ==
  authResult = Raise \/ ~Truthy(authResult)

\* socket.isAlive = true, first statement of the 'connection' listener.
InitialIsAlive == "true"

\* Fault variant: the controller's connection middleware ahead of the
\* process-wide ones.
connectChainControllerFirst ==
  controllerModules[1].connectionMiddleware \o connectionMiddlewareManager

\* [...this.connectionMiddlewareManager, ...controllerConnectionMiddleware]
connectChain ==
  connectionMiddlewareManager \o controllerModules[1].connectionMiddleware

\* this.app.handleUpgrade(request, socket, head, ws => emit('connection')):
\* the WebSocket is open, tracked in app.clients, and the 'connection'
\* listener (registered when a controller module exists) runs up to its
\* first await, the composition of the connection middleware as they are
\* registered at that moment.
HandleUpgrade(a) ==
  /\ rawSocket' = [rawSocket EXCEPT ![a] = "upgraded"]
  /\ clients' = clients \cup {a}
  /\ readyState' = [readyState EXCEPT ![a] = "OPEN"]
  /\ connectionEvents' = [connectionEvents EXCEPT ![a] = @ + 1]
  /\ IF controllerModules # <<>>
       THEN /\ isAlive' = [isAlive EXCEPT ![a] = InitialIsAlive]
            /\ pc' = [pc EXCEPT ![a] = "connectFn"]
            /\ connectFn' = [connectFn EXCEPT ![a] = connectChain]
       ELSE UNCHANGED <<isAlive, pc, connectFn>>

\* socket.destroy(); return;
Destroy(a) ==
  /\ rawSocket' = [rawSocket EXCEPT ![a] = "destroyed"]
  /\ UNCHANGED <<clients, readyState, connectionEvents, isAlive, pc, connectFn>>

\* An upgrade request arrives: with a predicate installed the listener calls
\* it and awaits; without one it completes the handshake at once.
Upgrade(a) ==
  /\ listening
  /\ rawSocket[a] = "idle"
  /\ IF upgradeAuthHandler # NoHandler
       THEN /\ rawSocket' = [rawSocket EXCEPT ![a] = "auth"]
            /\ authCalled' = [authCalled EXCEPT ![a] = upgradeAuthHandler]
            /\ UNCHANGED <<clients, readyState, connectionEvents, isAlive, pc,
                           connectFn>>
       ELSE /\ HandleUpgrade(a)
            /\ UNCHANGED authCalled
  /\ Forget
  /\ UNCHANGED <<configVars, upgradeAuthHandler, heartBeatInterval, listening,
                 closed, requested, idx, methodMap, listeners, onConnRuns,
                 dispatchVars, heartVars>>

\* Fault variant: the decision is taken on the predicate installed when the
\* evaluation settles.
AuthSettleCurrent(a) ==
  /\ rawSocket[a] = "auth"
  /\ IF AuthRejected(AuthResult(upgradeAuthHandler))
       THEN Destroy(a)
       ELSE HandleUpgrade(a)
  /\ Forget
  /\ UNCHANGED <<configVars, upgradeAuthHandler, heartBeatInterval, listening,
                 closed, requested, authCalled, idx, methodMap, listeners,
                 onConnRuns, dispatchVars, heartVars>>

\* The awaited predicate settles.
AuthSettle(a) ==
  /\ rawSocket[a] = "auth"
  /\ IF AuthRejected(AuthResult(authCalled[a]))
       THEN Destroy(a)
       ELSE HandleUpgrade(a)
  /\ Forget
  /\ UNCHANGED <<configVars, upgradeAuthHandler, heartBeatInterval, listening,
                 closed, requested, authCalled, idx, methodMap, listeners,
                 onConnRuns, dispatchVars, heartVars>>

(***************************************************************************)
(* The transport: pong frames, and the two steps of a connection going      *)
(* away (the close handshake or terminate() leaves it CLOSING and still in  *)
(* app.clients; the 'close' event makes it CLOSED and untracks it).         *)
(***************************************************************************)
\* Fault variant: the pong listener leaves the flag as it is.
OnPongIgnored(alive) == alive

\* socket.on('pong', () => { socket.isAlive = true })
OnPong(alive) == "true"

Pong(c) ==
  /\ readyState[c] = "OPEN"
  /\ controllerModules # <<>>
  /\ isAlive' = [isAlive EXCEPT ![c] = OnPong(@)]
  /\ hb' = [hb EXCEPT ![c].pingOut = FALSE, ![c].ponged = TRUE]
  /\ Forget
  /\ UNCHANGED <<configVars, upgradeAuthHandler, heartBeatInterval, listening,
                 closed, clients, gateVars, readyState, setupVars, dispatchVars, nTicks>>

BeginClose(c) ==
  /\ readyState[c] = "OPEN"
  /\ readyState' = [readyState EXCEPT ![c] = "CLOSING"]
  /\ Forget
  /\ UNCHANGED <<configVars, upgradeAuthHandler, heartBeatInterval, listening,
                 closed, clients, gateVars, isAlive, setupVars, dispatchVars, heartVars>>

\* The descriptors of the handler group (getClassMetadata(WS_EVENT_KEY)).
wsEventInfos == EventsOf(controllerModules)

\* 'close' is emitted: every registered on-disconnect listener is invoked and
\* awaits its handler.
CloseListeners(c) ==
  {[kind |-> "close", conn |-> c, d |-> d, ack |-> FALSE] :
     d \in {e \in listeners[c] : wsEventInfos[e].eventType = ON_DISCONNECTION}}

CloseEvent(c) ==
  /\ readyState[c] = "CLOSING"
  /\ readyState' = [readyState EXCEPT ![c] = "CLOSED"]
  /\ clients' = clients \ {c}
  /\ inflight' = inflight (+) SetToBag(CloseListeners(c))
  /\ lastEvent' =
       [conn |-> c, name |-> "close",
        declared |-> \E d \in 1..Len(wsEventInfos) :
                       wsEventInfos[d].eventType = ON_DISCONNECTION,
        invoked |-> Cardinality(CloseListeners(c)),
        afterFailure |-> FALSE]
  /\ last' = NoPipeline
  /\ UNCHANGED <<configVars, upgradeAuthHandler, heartBeatInterval, listening,
                 closed, gateVars, isAlive, setupVars, nEvents, heartVars>>

(***************************************************************************)
(* startHeartBeat: one run of the interval callback.                        *)
(***************************************************************************)
\* if (socket.isAlive === false) return socket.terminate();
MonitorTerminates(alive) == alive = "false"

\* Fault variant: the probe does not clear the flag.
AfterProbeStillAlive == "true"

\* socket.isAlive = false; socket.ping();
AfterProbe == "false"

\* WebSocket.terminate(): nothing on a closed socket, CLOSING otherwise.
Terminated(state) == IF state = "CLOSED" THEN state ELSE "CLOSING"

Tick ==
  /\ heartBeatInterval = "active"
  /\ nTicks < MaxTicks
  /\ nTicks' = nTicks + 1
  /\ readyState' =
       [c \in Conn |->
          IF c \in clients /\ MonitorTerminates(isAlive[c])
            THEN Terminated(readyState[c]) ELSE readyState[c]]
  /\ isAlive' =
       [c \in Conn |->
          IF c \in clients /\ ~MonitorTerminates(isAlive[c])
            THEN AfterProbe ELSE isAlive[c]]
  /\ hb' =
       [c \in Conn |->
          IF c \notin clients THEN hb[c]
          ELSE IF MonitorTerminates(isAlive[c])
            THEN [hb[c] EXCEPT !.ticks = @ + 1,
                               !.terminatedAt =
                                 IF @ = 0 THEN hb[c].ticks + 1 ELSE @]
            ELSE [hb[c] EXCEPT !.ticks = @ + 1, !.pings = @ + 1,
                               !.pingedAt = hb[c].ticks + 1, !.pingOut = TRUE]]
  /\ Forget
  /\ UNCHANGED <<configVars, upgradeAuthHandler, heartBeatInterval, listening,
                 closed, clients, gateVars, setupVars, dispatchVars>>

(***************************************************************************)
(* middlewareService.compose: the composed callable runs the interceptors   *)
(* in order; each either awaits next and returns its result, returns        *)
(* without calling next, or raises.  `final` is what the end of the chain   *)
(* yields.  What an interceptor does is its own choice at each invocation.  *)
(***************************************************************************)
Behaviours == {"next", "return", "raise"}

RECURSIVE compose(_, _, _, _)
compose(chain, beh, i, final) ==
  IF i > Len(chain) THEN final
  ELSE CASE beh[i] = "next" ->
              LET r == compose(chain, beh, i + 1, final)
              IN  [trace |-> <<chain[i]>> \o r.trace, out |-> r.out,
                   short |-> r.short]
         [] beh[i] = "return" ->
              [trace |-> <<chain[i]>>, out |-> Str(chain[i]), short |-> chain[i]]
         [] OTHER -> [trace |-> <<chain[i]>>, out |-> Raise, short |-> ""]

\* Reaching the end of a chain that has no continuation resolves undefined.
NoContinuation == [trace |-> <<>>, out |-> Undef, short |-> ""]

\* Every way the composed callable of `chain` can settle, `finals` being the
\* ways its last function can.
Settlements(chain, finals) ==
  {compose(chain, beh, 1, final) :
     beh \in [1..Len(chain) -> Behaviours], final \in finals}

\* BaseFramework.applyMiddleware(fn): the framework's own middleware (none
\* registered here) followed by fn.
applyMiddleware(chain) == <<>> \o chain

\* What a handler method may settle to.
HandlerResults == {Undef, Obj, Raise}

(***************************************************************************)
(* bindSocketResponse(result, socket, propertyName, methodMap): the number  *)
(* of socket.send calls it issues to each connection.                       *)
(***************************************************************************)
NoSends == [x \in Conn |-> 0]

SendTo(socket) == [x \in Conn |-> IF x = socket THEN 1 ELSE 0]

\* Fault variant: the broadcast does not look at readyState.
BroadcastSendsAll == [x \in Conn |-> IF x \in clients THEN 1 ELSE 0]

\* this.app.clients.forEach(client => readyState === OPEN && client.send())
BroadcastSends ==
  [x \in Conn |-> IF x \in clients /\ readyState[x] = "OPEN" THEN 1 ELSE 0]

RECURSIVE ResponseSends(_, _, _)
ResponseSends(responseEvents, i, socket) ==
  IF i > Len(responseEvents) THEN NoSends
  ELSE LET rest == ResponseSends(responseEvents, i + 1, socket)
           this == CASE responseEvents[i] = EMIT -> SendTo(socket)
                     [] responseEvents[i] = BROADCAST -> BroadcastSends
                     [] OTHER -> NoSends
       IN  [x \in Conn |-> this[x] + rest[x]]

\* Fault variant: the default send to the originator is left out.
bindSocketResponseNoDefault(result, socket, propertyName, mm) ==
  IF ~Truthy(result) \/ ~mm[propertyName].present THEN NoSends
  ELSE ResponseSends(mm[propertyName].responseEvents, 1, socket)

bindSocketResponse(result, socket, propertyName, mm) ==
  IF ~Truthy(result) THEN NoSends
  ELSE IF mm[propertyName].present
    THEN IF Len(mm[propertyName].responseEvents) = 0
           THEN SendTo(socket)
           ELSE ResponseSends(mm[propertyName].responseEvents, 1, socket)
    ELSE SendTo(socket)

\* After the awaited pipeline: a failure goes to the catch block; a result
\* goes to the ack callback when the event's last argument is a function
\* and to bindSocketResponse otherwise.
\* Fault variants: the result is bound even after the ack callback took it;
\* a failure is bound like a result.
CallsBinderAfterAck(out, ack) == out # Raise

CallsBinderOnFailure(out, ack) == ~ack

CallsBinder(out, ack) == out # Raise /\ ~ack

CallsAck(out, ack) == out # Raise /\ ack

\* The record of a settled pipeline: what ran, what it yielded, whether the
\* ack callback or bindSocketResponse was called, and the sends issued.
Settled(kind, c, d, ack, r) ==
  LET prop == wsEventInfos[d].propertyName
      binds == CallsBinder(r.out, ack)
  IN  [kind |-> kind, conn |-> c, d |-> d, ack |-> ack, trace |-> r.trace,
       short |-> r.short, out |-> r.out,
       acks |-> IF CallsAck(r.out, ack) THEN 1 ELSE 0,
       bound |-> binds,
       sends |-> IF binds
                   THEN bindSocketResponse(r.out, c, prop, methodMap[c])
                   ELSE NoSends,
       payload |-> IF binds /\ Truthy(r.out) THEN formatResult(r.out) ELSE Undef,
       open |-> {x \in clients : readyState[x] = "OPEN"},
       table |-> methodMap[c][prop].responseEvents]

(***************************************************************************)
(* The 'connection' listener of addNamespace after its first await.         *)
(***************************************************************************)
\* Fault variant: the loop does not advance.
SameDescriptor(d) == d

\* for (const wsEventInfo of wsEventInfos): the descriptor after d.
NextDescriptor(d) == d + 1

\* The top of `for (const wsEventInfo of wsEventInfos)` at descriptor i with
\* method map mm: the entry of the descriptor's method is created if missing
\* and the listener awaits requestContext.getAsync(target).
LoopTop(c, i, mm) ==
  IF i > Len(wsEventInfos)
    THEN /\ pc' = [pc EXCEPT ![c] = "done"]
         /\ idx' = [idx EXCEPT ![c] = i]
         /\ methodMap' = [methodMap EXCEPT ![c] = mm]
    ELSE /\ pc' = [pc EXCEPT ![c] = "getAsync"]
         /\ idx' = [idx EXCEPT ![c] = i]
         /\ methodMap' =
              [methodMap EXCEPT
                 ![c] = [mm EXCEPT ![wsEventInfos[i].propertyName].present = TRUE]]

\* The record of a settled connection-middleware pipeline.
ConnectSettled(c, r) ==
  [NoPipeline EXCEPT !.kind = "connect", !.conn = c, !.trace = r.trace,
                     !.short = r.short, !.out = r.out,
                     !.open = {x \in clients : readyState[x] = "OPEN"}]

\* Fault variant: a failure of the connection middleware is swallowed and
\* the descriptor loop starts all the same.
ConnectFnSettleCaught(c) ==
  /\ pc[c] = "connectFn"
  /\ \E r \in Settlements(connectFn[c], {NoContinuation}) :
       /\ LoopTop(c, 1, EmptyMethodMap)
       /\ last' = ConnectSettled(c, r)
  /\ lastEvent' = NoEvent
  /\ UNCHANGED <<configVars, upgradeAuthHandler, heartBeatInterval, listening,
                 closed, clients, gateVars, readyState, isAlive, connectFn,
                 listeners, onConnRuns, dispatchVars, heartVars>>

\* `await connectFn(socket)` settles: a failure rejects the listener's
\* promise and nothing after it runs; otherwise the descriptor loop starts.
ConnectFnSettle(c) ==
  /\ pc[c] = "connectFn"
  /\ \E r \in Settlements(connectFn[c], {NoContinuation}) :
       /\ IF r.out = Raise
            THEN /\ pc' = [pc EXCEPT ![c] = "rejected"]
                 /\ UNCHANGED <<idx, methodMap>>
            ELSE LoopTop(c, 1, EmptyMethodMap)
       /\ last' = ConnectSettled(c, r)
  /\ lastEvent' = NoEvent
  /\ UNCHANGED <<configVars, upgradeAuthHandler, heartBeatInterval, listening,
                 closed, clients, gateVars, readyState, isAlive, connectFn,
                 listeners, onConnRuns, dispatchVars, heartVars>>

\* The calls of socket.requestContext.getAsync(target) made so far for
\* connection c: one at the top of each iteration the loop has entered.
GetAsyncCalls(c) ==
  CASE pc[c] \in {"getAsync", "onConnection"} -> idx[c]
    [] pc[c] = "done" -> Len(wsEventInfos)
    [] OTHER -> 0

\* `await socket.requestContext.getAsync(target)` settles and the branch for
\* the descriptor's kind runs up to its next await.
GetAsyncSettle(c) ==
  /\ pc[c] = "getAsync"
  /\ LET d == idx[c]
         info == wsEventInfos[d]
     IN  CASE info.eventType = ON_CONNECTION ->
                /\ pc' = [pc EXCEPT ![c] = "onConnection"]
                /\ onConnRuns' = [onConnRuns EXCEPT ![c][d] = @ + 1]
                /\ UNCHANGED <<idx, methodMap, listeners>>
           [] info.eventType \in {ON_MESSAGE, ON_DISCONNECTION} ->
                /\ listeners' = [listeners EXCEPT ![c] = @ \cup {d}]
                /\ LoopTop(c, NextDescriptor(d), methodMap[c])
                /\ UNCHANGED onConnRuns
           [] OTHER ->
                /\ LoopTop(c, NextDescriptor(d),
                     [methodMap[c] EXCEPT
                        ![info.propertyName].responseEvents =
                          Append(@, info.eventType)])
                /\ UNCHANGED <<listeners, onConnRuns>>
  /\ Forget
  /\ UNCHANGED <<configVars, upgradeAuthHandler, heartBeatInterval, listening,
                 closed, clients, gateVars, readyState, isAlive, connectFn,
                 dispatchVars, heartVars>>

\* Fault variant: the handler is invoked although the guard refused.
GuardedHandlerUnguarded(isPassed, propertyName, result) ==
  IF isPassed
    THEN [trace |-> <<propertyName>>, out |-> result, short |-> ""]
    ELSE [trace |-> <<"runGuard", propertyName>>, out |-> result, short |-> ""]

\* The last element of the on-connect chain: runGuard, then the handler; a
\* refusing guard is recorded in the trace in place of the handler.
GuardedHandler(isPassed, propertyName, result) ==
  IF isPassed
    THEN [trace |-> <<propertyName>>, out |-> result, short |-> ""]
    ELSE [trace |-> <<"runGuard">>, out |-> Raise, short |-> ""]

\* `await fn(socket)` of the on-connect pipeline settles; its result goes to
\* bindSocketResponse, a failure is caught, and the loop goes on.
OnConnectionSettle(c) ==
  /\ pc[c] = "onConnection"
  /\ LET d == idx[c]
         info == wsEventInfos[d]
     IN  \E r \in Settlements(info.middleware,
                     {GuardedHandler(isPassed, info.propertyName, result) :
                        isPassed \in BOOLEAN, result \in HandlerResults}) :
           last' = Settled("connection", c, d, FALSE, r)
  /\ LoopTop(c, NextDescriptor(idx[c]), methodMap[c])
  /\ lastEvent' = NoEvent
  /\ UNCHANGED <<configVars, upgradeAuthHandler, heartBeatInterval, listening,
                 closed, clients, gateVars, readyState, isAlive, connectFn,
                 listeners, onConnRuns, inflight, nEvents, heartVars>>

(***************************************************************************)
(* Inbound events and the listeners registered by the descriptor loop.      *)
(***************************************************************************)
\* The on-message descriptors for an event name.
Declared(name) ==
  {d \in 1..Len(wsEventInfos) :
     /\ wsEventInfos[d].eventType = ON_MESSAGE
     /\ wsEventInfos[d].messageEventName = name}

\* The socket emits the event `name`; `ack` tells whether its last argument
\* is a function.  Each registered listener starts its pipeline and awaits.
MessageEvent(c, name, ack) ==
  /\ readyState[c] = "OPEN"
  /\ nEvents < MaxEvents
  /\ nEvents' = nEvents + 1
  /\ inflight' = inflight (+) SetToBag(
       {[kind |-> "message", conn |-> c, d |-> d, ack |-> ack] :
          d \in Declared(name) \cap listeners[c]})
  /\ lastEvent' =
       [conn |-> c, name |-> name, declared |-> Declared(name) # {},
        invoked |-> Cardinality(Declared(name) \cap listeners[c]),
        afterFailure |->
          last.kind = "message" /\ last.conn = c /\ last.out = Raise]
  /\ last' = NoPipeline
  /\ UNCHANGED <<configVars, upgradeAuthHandler, heartBeatInterval, listening,
                 closed, clients, gateVars, readyState, isAlive, setupVars, heartVars>>

\* [...controllerMiddleware, ...wsEventInfo.eventOptions.middleware, handler]
\* Fault variant: the descriptor's middleware ahead of the controller's.
messageChainReversed(info) ==
  applyMiddleware(info.middleware \o controllerModules[1].middleware)

messageChain(info) ==
  applyMiddleware(controllerModules[1].middleware \o info.middleware)

\* The pipeline of a message listener settles: the result goes to the ack
\* callback or to bindSocketResponse; a failure is caught.
MessageSettle(t) ==
  /\ BagIn(t, inflight)
  /\ t.kind = "message"
  /\ LET info == wsEventInfos[t.d]
     IN  \E r \in Settlements(messageChain(info),
                     {[trace |-> <<info.propertyName>>, out |-> result,
                       short |-> ""] : result \in HandlerResults}) :
           last' = Settled("message", t.conn, t.d, t.ack, r)
  /\ inflight' = inflight (-) SetToBag({t})
  /\ lastEvent' = NoEvent
  /\ UNCHANGED <<configVars, upgradeAuthHandler, heartBeatInterval, listening,
                 closed, clients, gateVars, readyState, isAlive, setupVars, nEvents,
                 heartVars>>

\* The handler awaited by a close listener settles.
DisconnectSettle(t) ==
  /\ BagIn(t, inflight)
  /\ t.kind = "close"
  /\ \E result \in HandlerResults :
       last' = Settled("close", t.conn, t.d, FALSE,
                 [trace |-> <<wsEventInfos[t.d].propertyName>>, out |-> result,
                  short |-> ""])
  /\ inflight' = inflight (-) SetToBag({t})
  /\ lastEvent' = NoEvent
  /\ UNCHANGED <<configVars, upgradeAuthHandler, heartBeatInterval, listening,
                 closed, clients, gateVars, readyState, isAlive, setupVars, nEvents,
                 heartVars>>

(***************************************************************************)
(* The upgrade gate alone: no heartbeat, a controller without descriptors.  *)
(***************************************************************************)
InitGate == InitWith(FALSE, <<NoEvents>>)

NextGate ==
  \/ Listening
  \/ \E h \in AuthHandlers \cup {NoHandler} : OnWebSocketUpgrade(h)
  \/ \E a \in Conn : Upgrade(a)
  \/ \E a \in Conn : AuthSettle(a)

SpecGate == InitGate /\ [][NextGate]_vars

(***************************************************************************)
(* The heartbeat monitor: enabled, no predicate installed, with and without *)
(* a controller module (without one nothing ever sets isAlive to true).     *)
(***************************************************************************)
InitHeart == \E modules \in {<<>>, <<NoEvents>>} : InitWith(TRUE, modules)

NextHeart ==
  \/ Listening
  \/ \E a \in Conn : Upgrade(a)
  \/ Tick
  \/ \E c \in Conn : Pong(c)
  \/ \E c \in Conn : BeginClose(c)
  \/ \E c \in Conn : CloseEvent(c)

SpecHeart == InitHeart /\ [][NextHeart]_vars

(***************************************************************************)
(* The life of the heartbeat timer: the check enabled or not, the HTTP      *)
(* server listening before run() or only later, the WebSocket server        *)
(* closing at any moment.                                                   *)
(***************************************************************************)
InitLife ==
  \E enable \in BOOLEAN, isListening \in BOOLEAN :
    InitRun(enable, <<NoEvents>>, isListening)

NextLife ==
  \/ Listening
  \/ AppClose
  \/ \E a \in Conn : Upgrade(a)
  \/ Tick
  \/ \E c \in Conn : Pong(c)

SpecLife == InitLife /\ [][NextLife]_vars

(***************************************************************************)
(* The event router: one controller module, no heartbeat, no predicate.     *)
(***************************************************************************)
InitRouter == \E controller \in Controllers : InitWith(FALSE, <<controller>>)

NextRouter ==
  \/ Listening
  \/ \E a \in Conn : Upgrade(a)
  \/ \E c \in Conn : ConnectFnSettle(c)
  \/ \E c \in Conn : GetAsyncSettle(c)
  \/ \E c \in Conn : OnConnectionSettle(c)
  \/ \E c \in Conn, ack \in BOOLEAN : MessageEvent(c, "message", ack)
  \/ \E t \in BagToSet(inflight) : MessageSettle(t)
  \/ \E t \in BagToSet(inflight) : DisconnectSettle(t)
  \/ \E c \in Conn : BeginClose(c)
  \/ \E c \in Conn : CloseEvent(c)

SpecRouter == InitRouter /\ [][NextRouter]_vars

\* The same when every awaited container lookup and on-connect pipeline of
\* the descriptor loop eventually settles.
SpecRouterFair ==
  /\ SpecRouter
  /\ \A c \in Conn : WF_vars(GetAsyncSettle(c)) /\ WF_vars(OnConnectionSettle(c))

(***************************************************************************)
(* Connection setup under the heartbeat monitor: a controller with          *)
(* connection middleware, the check enabled, no predicate.                  *)
(***************************************************************************)
InitSetup == InitWith(TRUE, <<NoResponse>>)

NextSetup ==
  \/ Listening
  \/ \E a \in Conn : Upgrade(a)
  \/ \E c \in Conn : ConnectFnSettle(c)
  \/ \E c \in Conn : GetAsyncSettle(c)
  \/ \E c \in Conn : OnConnectionSettle(c)
  \/ \E c \in Conn, ack \in BOOLEAN : MessageEvent(c, "message", ack)
  \/ \E t \in BagToSet(inflight) : MessageSettle(t)
  \/ Tick
  \/ \E c \in Conn : CloseEvent(c)
  \/ \E t \in BagToSet(inflight) : DisconnectSettle(t)

SpecSetup == InitSetup /\ [][NextSetup]_vars

(***************************************************************************)
(* The middleware chains: process-wide connection middleware registered at  *)
(* any time, a controller with connection middleware and one with           *)
(* controller and descriptor middleware.                                    *)
(***************************************************************************)
InitChain ==
  \E controller \in {NoResponse, ResponseFirst} :
    InitWith(FALSE, <<controller>>)

NextChain ==
  \/ Listening
  \/ UseConnectionMiddleware
  \/ \E a \in Conn : Upgrade(a)
  \/ \E c \in Conn : ConnectFnSettle(c)
  \/ \E c \in Conn : GetAsyncSettle(c)
  \/ \E c \in Conn : OnConnectionSettle(c)
  \/ \E c \in Conn, ack \in BOOLEAN : MessageEvent(c, "message", ack)
  \/ \E t \in BagToSet(inflight) : MessageSettle(t)

SpecChain == InitChain /\ [][NextChain]_vars

(***************************************************************************)
(* Properties of the upgrade gate (SpecGate).                               *)
(***************************************************************************)
\* C1: an upgrade attempt that called an installed predicate which resolved
\* to a falsy value or raised has its raw socket destroyed, never completes
\* the handshake and never gets a 'connection' event; while the predicate is
\* pending nothing has been emitted either. Both rejection paths end alike.
C1_RejectedUpgradeIsDestroyed ==
  \A a \in Conn :
    /\ rawSocket[a] = "auth" => connectionEvents[a] = 0 /\ readyState[a] = "NONE"
    /\ ( /\ authCalled[a] # NoHandler
         /\ rawSocket[a] # "auth"
         /\ (AuthResult(authCalled[a]) = Raise
               \/ ~Truthy(AuthResult(authCalled[a]))) )
       => /\ rawSocket[a] = "destroyed"
          /\ connectionEvents[a] = 0
          /\ readyState[a] = "NONE"
          /\ a \notin clients
          /\ pc[a] = "none"

\* One attempt rejected by a raising predicate and one by a falsy result.
C1_Witness ==
  \E a, b \in Conn :
    /\ authCalled[a] = "throws" /\ rawSocket[a] = "destroyed"
    /\ authCalled[b] = "denyUndef" /\ rawSocket[b] = "destroyed"

(***************************************************************************)
(* Properties of the heartbeat monitor (SpecHeart).  hb[c].ticks counts the *)
(* interval callbacks that visited c in app.clients.                        *)
(***************************************************************************)
\* C2: a connection from which no pong was ever received is, after the first
\* tick that visits it, not terminated, marked not alive and pinged once;
\* from the second tick on it is terminated, the termination happened at
\* the second tick, and it was still pinged only once.
C2_SilentPeerTerminatedAtSecondTick ==
  \A c \in Conn :
    ~hb[c].ponged =>
      /\ hb[c].ticks = 1 =>
           /\ hb[c].terminatedAt = 0
           /\ isAlive[c] = "false"
           /\ hb[c].pings = 1
      /\ hb[c].ticks >= 2 =>
           /\ hb[c].terminatedAt = 2
           /\ hb[c].pings = 1
           /\ readyState[c] \in {"CLOSING", "CLOSED"}

C2_Witness ==
  \E c \in Conn :
    ~hb[c].ponged /\ hb[c].ticks = 2 /\ hb[c].terminatedAt = 2 /\ hb[c].pings = 1

DeclaredResponses(propertyName) ==
  LET IsResponse(info) ==
        /\ info.propertyName = propertyName
        /\ info.eventType \in {EMIT, BROADCAST}
      declared == SelectSeq(wsEventInfos, IsResponse)
  IN  [i \in 1..Len(declared) |-> declared[i].eventType]

\* The last pipeline handed a non-empty result to bindSocketResponse.
BoundNonEmpty == last.kind # "none" /\ last.bound /\ Truthy(last.out)

lastMethod == wsEventInfos[last.d].propertyName

\* C4: when the method of the handler declares one emit and one broadcast
\* descriptor, a non-empty result bound for it is sent once to the
\* originating connection and once more to every open connection: twice to
\* an open originator, once to every other open connection, to no other.
C4_EmitAndBroadcastBothSent ==
  ( /\ BoundNonEmpty
    /\ Len(DeclaredResponses(lastMethod)) = 2
    /\ {DeclaredResponses(lastMethod)[i] : i \in 1..2} = {EMIT, BROADCAST} )
  => \A x \in Conn :
       last.sends[x] = (IF x = last.conn THEN 1 ELSE 0)
                         + (IF x \in last.open THEN 1 ELSE 0)

\* C5: when the method declares no response descriptor, a non-empty result
\* bound for it is sent exactly once to the originating connection, in its
\* formatted form, and to no other connection.
C5_DefaultSendsToOriginatorOnce ==
  (BoundNonEmpty /\ DeclaredResponses(lastMethod) = <<>>)
  => /\ last.sends = SendTo(last.conn)
     /\ last.payload = formatResult(last.out)
     /\ last.payload.type # "object"

\* A message handler without response descriptors returned an object while
\* another connection was open.
C5_Witness ==
  /\ BoundNonEmpty
  /\ last.kind = "message"
  /\ last.out = Obj
  /\ DeclaredResponses(lastMethod) = <<>>
  /\ last.sends[last.conn] = 1
  /\ \E x \in last.open : x # last.conn

\* C6: when the last argument of a message event is a function, the result
\* of the pipeline is passed to it exactly once (not at all when the
\* pipeline failed), bindSocketResponse is not called and nothing is sent to
\* any connection, whatever response descriptors the method declares.
C6_AckBypassesBinder ==
  (last.kind = "message" /\ last.ack)
  => /\ ~last.bound
     /\ last.sends = NoSends
     /\ last.acks = IF last.out = Raise THEN 0 ELSE 1

\* An acknowledged message of a method that declares emit and broadcast,
\* with a non-empty result and another connection open.
C6_Witness ==
  /\ last.kind = "message"
  /\ last.ack
  /\ last.out = Obj
  /\ last.acks = 1
  /\ last.table = <<EMIT, BROADCAST>>
  /\ \E x \in last.open : x # last.conn

\* The descriptor loop of connection c has started the branch of descriptor d.
Reached(c, d) ==
  \/ pc[c] \in {"getAsync", "onConnection"} /\ idx[c] > d
  \/ pc[c] = "onConnection" /\ idx[c] = d
  \/ pc[c] = "done"

\* C7: for every connection and on-connect descriptor the on-connect
\* pipeline has run exactly once if the descriptor loop reached the
\* descriptor and not at all otherwise, however many message events were
\* delivered; it never runs for a descriptor of another kind.
C7_OnConnectionRunsOnce ==
  \A c \in Conn : \A d \in 1..Len(wsEventInfos) :
    onConnRuns[c][d] =
      IF wsEventInfos[d].eventType = ON_CONNECTION /\ Reached(c, d)
        THEN 1 ELSE 0

\* All the message events of the run were delivered, the last one to a
\* connection still inside its on-connect pipeline, and the setup of a
\* connection finished with its on-connect pipeline run once.
C7_Witness ==
  /\ nEvents = MaxEvents
  /\ \E c \in Conn :
       /\ lastEvent.conn = c /\ lastEvent.name = "message"
       /\ pc[c] = "onConnection"
       /\ onConnRuns[c][idx[c]] = 1
  /\ \E c \in Conn, d \in 1..Len(wsEventInfos) :
       pc[c] = "done" /\ onConnRuns[c][d] = 1

\* C8: every message or close event delivered for an accepted connection,
\* for which the handler group declares a descriptor, invokes a listener.
C8_NoDeclaredEventMissed ==
  (lastEvent.conn # 0 /\ lastEvent.declared) => lastEvent.invoked >= 1

\* C9: a message pipeline that failed sent nothing, called neither the ack
\* callback nor bindSocketResponse and left its listener registered; and
\* the step in which it settled changed no connection's state, tracking,
\* setup position or listeners, and removed no other invocation in flight.
C9_FailedInvocation ==
  (last.kind = "message" /\ last.out = Raise)
  => /\ last.sends = NoSends
     /\ last.acks = 0
     /\ ~last.bound
     /\ last.d \in listeners[last.conn]

C9_FailureSettles ==
  /\ BagCardinality(inflight') < BagCardinality(inflight)
  /\ last'.kind = "message"
  /\ last'.out = Raise

C9_FailureIsIsolated ==
  /\ []C9_FailedInvocation
  /\ [][C9_FailureSettles =>
          /\ readyState' = readyState
          /\ clients' = clients
          /\ listeners' = listeners
          /\ pc' = pc
          /\ BagCardinality(inflight') = BagCardinality(inflight) - 1]_vars

\* After a failed message pipeline on a connection, a later message event on
\* that connection invoked the listener again, the connection being open.
C9_Witness ==
  /\ lastEvent.name = "message"
  /\ lastEvent.afterFailure
  /\ lastEvent.invoked >= 1
  /\ readyState[lastEvent.conn] = "OPEN"
  /\ \E t \in BagToSet(inflight) : t.kind = "message" /\ t.conn = lastEvent.conn

\* C10: in the pipelines whose chain is [A, B, handler] (the on-connect
\* pipeline of a descriptor with middleware A, B; the message pipeline of
\* controller middleware A and descriptor middleware B), when A returns
\* without calling next only A has run and the result is A's return value.
C10_ShortCircuitSkipsRest ==
  (last.kind \in {"connection", "message"} /\ last.short = "A")
  => /\ last.trace = <<"A">>
     /\ last.out = Str("A")

\* A short-circuited on-connect pipeline.
C10_Witness ==
  /\ last.kind = "connection"
  /\ last.short = "A"
  /\ Len(wsEventInfos[last.d].middleware) = 2
  /\ last.trace = <<"A">>

(***************************************************************************)
(* Properties of the middleware chains (SpecChain).                         *)
(***************************************************************************)
IsPrefix(s, t) == Len(s) <= Len(t) /\ SubSeq(t, 1, Len(s)) = s

\* C11: the interceptors a pipeline ran are, in this order, a prefix of its
\* chain, and the whole chain when no interceptor stopped it. For the
\* connection pipeline the chain is the process-wide middleware registered
\* when the connection arrived, in the order of the useConnectionMiddleware
\* calls, followed by the controller's connection middleware; for a message
\* pipeline it is the controller's middleware, then the descriptor's, then
\* the handler.
C11_GlobalFirstRegistrationOrder ==
  /\ last.kind = "connect" =>
       \E k \in 0..Len(connectionMiddlewareManager) :
         LET chain == SubSeq(ProcessWide, 1, k)
                        \o controllerModules[1].connectionMiddleware
         IN  /\ IsPrefix(last.trace, chain)
             /\ (last.short = "" /\ last.out # Raise) => last.trace = chain
  /\ last.kind = "message" =>
       LET info == wsEventInfos[last.d]
           chain == controllerModules[1].middleware \o info.middleware
                      \o <<info.propertyName>>
       IN  /\ IsPrefix(last.trace, chain)
           /\ (last.short = "" /\ last.out # Raise) => last.trace = chain

\* Two process-wide middleware and the controller's one all ran for a
\* connection, each calling next.
C11_Witness ==
  /\ last.kind = "connect"
  /\ last.trace = <<"U", "V", "G">>
  /\ last.out = Undef

(***************************************************************************)
(* Further properties of the upgrade gate (SpecGate).                       *)
(***************************************************************************)
\* The upgrade request of attempt a arrives in this step.
Arrives(a) == rawSocket[a] = "idle" /\ rawSocket'[a] # "idle"

\* C12: the predicate in force is always the argument of the latest
\* onWebSocketUpgrade call (none before the first call). An upgrade request
\* that arrives when that argument is null, or when no call was made, is
\* accepted at once: handshake completed, one 'connection' event, socket
\* tracked and not destroyed, no predicate called. Otherwise the predicate
\* called is the one installed last, and nothing is emitted yet.
C12_RemovalRestoresUnconditionalAccept ==
  /\ [](upgradeAuthHandler = requested)
  /\ [][\A a \in Conn :
          Arrives(a) =>
            IF requested = NoHandler
              THEN /\ rawSocket'[a] = "upgraded"
                   /\ connectionEvents'[a] = 1
                   /\ readyState'[a] = "OPEN"
                   /\ a \in clients'
                   /\ authCalled'[a] = NoHandler
              ELSE /\ rawSocket'[a] = "auth"
                   /\ authCalled'[a] = requested
                   /\ connectionEvents'[a] = 0]_vars

\* A predicate was installed and rejected an attempt, the latest call
\* removed it, and an attempt was accepted without any predicate called.
C12_Witness ==
  /\ requested = NoHandler
  /\ \E a, b \in Conn :
       /\ authCalled[a] = "deny" /\ rawSocket[a] = "destroyed"
       /\ authCalled[b] = NoHandler /\ rawSocket[b] = "upgraded"
       /\ connectionEvents[b] = 1

\* What the predicate attempt a called at arrival decides.
DecidedOutcome(a) ==
  IF AuthResult(authCalled[a]) = Raise \/ ~Truthy(AuthResult(authCalled[a]))
    THEN "destroyed" ELSE "upgraded"

\* C18: an attempt never has more than one 'connection' event; a destroyed
\* socket has none and is not tracked, an upgraded one has exactly one, a
\* waiting one none; once its predicate has settled the outcome is the one
\* the predicate called at arrival decides, whatever is installed now. An
\* outcome is final, and the predicate of an attempt is chosen only when
\* the request arrives.
C18_OneOutcomePerAttempt ==
  /\ [](\A a \in Conn :
          /\ connectionEvents[a] =
               (IF rawSocket[a] = "upgraded" THEN 1 ELSE 0)
          /\ rawSocket[a] = "destroyed" =>
               a \notin clients /\ readyState[a] = "NONE"
          /\ (authCalled[a] # NoHandler /\ rawSocket[a] # "auth") =>
               rawSocket[a] = DecidedOutcome(a))
  /\ [][\A a \in Conn :
          /\ rawSocket[a] \in {"destroyed", "upgraded"} =>
               rawSocket'[a] = rawSocket[a]
          /\ authCalled'[a] # authCalled[a] => rawSocket[a] = "idle"]_vars

\* An attempt accepted by the predicate it called and one destroyed by the
\* predicate it called, while yet another predicate is installed.
C18_Witness ==
  /\ upgradeAuthHandler = "denyUndef"
  /\ \E a, b \in Conn :
       /\ authCalled[a] = "allow" /\ rawSocket[a] = "upgraded"
       /\ connectionEvents[a] = 1
       /\ authCalled[b] = "throws" /\ rawSocket[b] = "destroyed"

(***************************************************************************)
(* Further properties of the event router (SpecRouter, SpecRouterFair).     *)
(***************************************************************************)
\* The last pipeline is one of a handler method.
HandlerPipeline == last.kind \in {"connection", "message", "close"}

\* C13: whenever bindSocketResponse is called for a handler method, the
\* entry of the method in the method map holds every emit / broadcast
\* descriptor declared for the method, in every order of declaration.
C13_ResponseTableComplete ==
  (HandlerPipeline /\ last.bound)
  => last.table = DeclaredResponses(lastMethod)

\* The on-connect pipeline of the last step ended in a failure / was refused
\* by the guard.
OnConnectFailed == last.kind = "connection" /\ last.out = Raise

GuardRefused ==
  /\ last.kind = "connection"
  /\ \E i \in 1..Len(last.trace) : last.trace[i] = "runGuard"

\* The descriptors whose branch registers a listener on the socket.
ListenerDescriptors ==
  {d \in 1..Len(wsEventInfos) :
     wsEventInfos[d].eventType \in {ON_MESSAGE, ON_DISCONNECTION}}

\* C14: when the guard of an on-connect descriptor refuses, the handler is
\* not invoked, the pipeline fails and nothing is sent; a failed on-connect
\* pipeline binds no response, the step in which it settles changes no
\* connection's state or tracking and moves the loop to the next
\* descriptor; and from there on the loop reaches its end with the
\* listener of every message and disconnect descriptor registered.
C14_ForbiddenInvocationIsCaught ==
  /\ [](GuardRefused =>
          /\ \A i \in 1..Len(last.trace) : last.trace[i] # lastMethod
          /\ last.out = Raise)
  /\ [](OnConnectFailed =>
          /\ ~last.bound
          /\ last.sends = NoSends
          /\ pc[last.conn] \in {"getAsync", "done"}
          /\ idx[last.conn] = last.d + 1)
  /\ [][OnConnectFailed' => readyState' = readyState /\ clients' = clients]_vars
  /\ \A c \in Conn :
       (GuardRefused /\ last.conn = c)
         ~> (pc[c] = "done" /\ listeners[c] = ListenerDescriptors)

\* The guard refused the on-connect handler of an open connection after
\* both middleware of the descriptor ran, and the loop stands at the
\* message descriptor that follows.
C14_Witness ==
  /\ GuardRefused
  /\ last.trace = <<"A", "B", "runGuard">>
  /\ readyState[last.conn] = "OPEN"
  /\ pc[last.conn] = "getAsync"
  /\ wsEventInfos[idx[last.conn]].eventType = ON_MESSAGE

\* The number of descriptors of kind t in a method map entry.
Count(responseEvents, t) ==
  Cardinality({i \in 1..Len(responseEvents) : responseEvents[i] = t})

\* C15: a non-empty result bound with broadcast descriptors in the entry
\* of its method is sent, per broadcast descriptor, exactly once to every
\* tracked connection that is open and to no other connection; the sends
\* to the originator by emit descriptors come on top of these.
C15_BroadcastReachesOpenOnly ==
  (HandlerPipeline /\ BoundNonEmpty /\ Count(last.table, BROADCAST) > 0)
  => \A x \in Conn :
       last.sends[x] =
         (IF x = last.conn THEN Count(last.table, EMIT) ELSE 0)
           + (IF x \in clients /\ readyState[x] = "OPEN"
                THEN Count(last.table, BROADCAST) ELSE 0)

\* A broadcast with a tracked connection that is closing (the originator,
\* which gets the emit only) and another one that is open and gets the
\* payload once.
C15_Witness ==
  /\ HandlerPipeline
  /\ BoundNonEmpty
  /\ last.table = <<EMIT, BROADCAST>>
  /\ last.conn \in clients
  /\ readyState[last.conn] = "CLOSING"
  /\ last.sends[last.conn] = 1
  /\ \E x \in clients :
       x # last.conn /\ readyState[x] = "OPEN" /\ last.sends[x] = 1

\* C17: the handler instance of a connection is requested from its scoped
\* container at most once, and exactly once when the descriptor loop of the
\* connection has finished over a non-empty descriptor list.
C17_ResolvedOncePerConnection ==
  \A c \in Conn :
    /\ GetAsyncCalls(c) <= 1
    /\ (pc[c] = "done" /\ Len(wsEventInfos) > 0) => GetAsyncCalls(c) = 1

\* C20: bindSocketResponse issues no send to a connection that is not
\* tracked and open, whether by emit, by default or by broadcast.
C20_NoSendToNonOpen ==
  HandlerPipeline =>
    \A x \in Conn :
      last.sends[x] > 0 => (x \in clients /\ readyState[x] = "OPEN")

(***************************************************************************)
(* Properties of the heartbeat timer's life (SpecLife).                     *)
(***************************************************************************)
\* C16: the interval callback never runs when enableServerHeartbeatCheck
\* is not set, and never runs once the WebSocket server has closed.
C16_NoTickWhenDisabledOrClosed ==
  [][(~enableServerHeartbeatCheck \/ closed) => nTicks' = nTicks]_vars

(***************************************************************************)
(* Properties of connection setup under the monitor (SpecSetup).            *)
(***************************************************************************)
\* The 'connection' listener of c ended at a failed `await connectFn(socket)`.
Rejected(c) == pc[c] = "rejected"

\* C19: a connection whose connection middleware raised ends its setup
\* there for good: no on-connect pipeline ever runs for it, no listener is
\* ever registered on it and no event delivered to it invokes anything.
\* The step in which the failure settles closes nothing and touches no
\* other connection's state, setup or listeners; the connection stays
\* tracked until its 'close' event and every tick of the monitor visits it
\* while it is.
C19_ConnectFailureStopsSetupOnly ==
  /\ []((last.kind = "connect" /\ last.out = Raise) => Rejected(last.conn))
  /\ [](\A c \in Conn :
          Rejected(c) =>
            /\ listeners[c] = {}
            /\ \A d \in 1..Len(wsEventInfos) : onConnRuns[c][d] = 0
            /\ \A t \in BagToSet(inflight) : t.conn # c
            /\ lastEvent.conn = c => lastEvent.invoked = 0
            /\ readyState[c] # "CLOSED" => c \in clients)
  /\ [][\A c \in Conn :
          /\ Rejected(c) => Rejected(c)'
          /\ (~Rejected(c) /\ Rejected(c)') =>
               /\ readyState' = readyState
               /\ clients' = clients
               /\ isAlive' = isAlive
               /\ listeners' = listeners
               /\ inflight' = inflight
               /\ \A o \in Conn \ {c} : pc'[o] = pc[o]
          /\ (Rejected(c) /\ c \in clients /\ nTicks' # nTicks) =>
               hb'[c].ticks = hb[c].ticks + 1]_vars

\* A message event was just delivered to a rejected connection that is
\* open and was pinged by the monitor, and invoked nothing, while the
\* other connection finished its setup with its listeners registered.
C19_Witness ==
  \E c, o \in Conn :
    /\ Rejected(c)
    /\ readyState[c] = "OPEN"
    /\ hb[c].pings >= 1
    /\ lastEvent.conn = c /\ lastEvent.name = "message"
    /\ lastEvent.invoked = 0
    /\ pc[o] = "done" /\ listeners[o] = ListenerDescriptors

====
